---- MODULE Spec2Model ----
(***************************************************************************)
(* A model of the trajectory-prediction repository:                        *)
(*   - AgentCenter.apply / AgentCenter.inverse                             *)
(*       (src/transformations/agent_centered_transformations copy.py)      *)
(*   - angle_filter            (src/models/lanes/angle_filter.py)          *)
(*   - BaseModel               (src/models/base.py)                        *)
(*   - SimpleRNN.forward       (src/models/b_simple_rnn.py)                *)
(*                                                                         *)
(* Numbers.  The code computes in floating point; the model computes in    *)
(* exact real arithmetic.  Input coordinates are integers.  The rotation   *)
(* by theta = pi/2 - atan2(ey, ex) has cos(theta) = ey / r and             *)
(* sin(theta) = ex / r with r = sqrt(ex^2 + ey^2), so every coordinate a   *)
(* rotation produces is an integer n divided by r.  The model stores the   *)
(* numerator n and keeps r^2 in the variable norm2: a stored coordinate n  *)
(* stands for the real number n / sqrt(norm2) (norm2 = 1 before apply).    *)
(***************************************************************************)
EXTENDS Integers, Sequences, FiniteSets, TLC

VARIABLES
    \* ---- AgentCenter ----
    datum,               \* the dict handed to AgentCenter.apply, updated in place
    original,            \* the datum as it was before apply (kept for the properties)
    rotation_transforms, \* the matrix built by get_rotation_matrix in apply
    norm2,               \* r^2: stored coordinates of datum stand for n / sqrt(norm2)
    batch_predictions,   \* what the call of datum["prediction_correction"] returned
    ac_pc,               \* "idle" | "raw" | "applied" | "inverted"
    \* ---- angle_filter ----
    lanes,               \* the argument: a list of per-batch lane tensors (rows x,y,dx,dy)
    output,              \* the list being built
    af_i,                \* how many batch elements the for loop has consumed
    af_pc,               \* "idle" | "loop" | "returned"
    \* ---- BaseModel ----
    bm,                  \* the BaseModel object's attributes
    built,               \* every wrapped model constructed so far, in order
    bm_args,             \* the arguments the constructor was called with
    bm_x,                \* the argument of the last forward call
    bm_result,           \* what the last forward call returned (or raised)
    bm_calls,            \* number of forward calls made
    bm_pc,               \* "idle" | "new" | "constructed" | "called"
    \* ---- SimpleRNN ----
    rnn,                 \* the SimpleRNN object's attributes
    x,                   \* the sequence tensor of forward, as its shape and content tags
    hidden,              \* the GRU hidden state handle
    outputs,             \* the list of predictions
    t,                   \* the loop variable of forward
    rnn_pc               \* "idle" | "embed" | "loop" | "returned" | "raised"

acVars  == <<datum, original, rotation_transforms, norm2, batch_predictions, ac_pc>>
afVars  == <<lanes, output, af_i, af_pc>>
bmVars  == <<bm, built, bm_args, bm_x, bm_result, bm_calls, bm_pc>>
rnnVars == <<rnn, x, hidden, outputs, t, rnn_pc>>
vars    == <<acVars, afVars, bmVars, rnnVars>>

(***************************************************************************)
(* Bounds of the model.                                                    *)
(***************************************************************************)
MaxCoord == 1      \* input coordinates range over 0..MaxCoord
MaxIn    == 2      \* the input trajectory has 1..MaxIn timesteps
MaxOut   == 2      \* the output trajectory has 1..MaxOut timesteps
MaxDir   == 1      \* lane direction components range over -MaxDir..MaxDir
MaxBatch == 2      \* angle_filter gets 1..MaxBatch batch elements
MaxLanes == 2      \* each with 0..MaxLanes lanes
MaxX     == 3      \* BaseModel.forward is called on inputs 1..MaxX
MaxCalls == 2      \* at most MaxCalls forward calls per BaseModel
MaxEmb   == 2      \* positional_embeddings ranges over 0..MaxEmb
MaxInT   == 3      \* SimpleRNN input_timesteps ranges over 1..MaxInT
MaxOutT  == 3      \* SimpleRNN output_timesteps ranges over 0..MaxOutT

(***************************************************************************)
(* Small helpers on sequences and vectors.                                 *)
(***************************************************************************)
Sign(n) == IF n < 0 THEN -1 ELSE IF n > 0 THEN 1 ELSE 0

Last(s) == s[Len(s)]

VecSub(a, b) == [i \in DOMAIN a |-> a[i] - b[i]]

VecAdd(a, b) == [i \in DOMAIN a |-> a[i] + b[i]]

\* The real number n / sqrt(r2) equals the integer p.
EqReal(n, r2, p) == Sign(n) = Sign(p) /\ n * n = r2 * p * p

IdleAC ==
    /\ datum = "none" /\ original = "none" /\ rotation_transforms = "none"
    /\ norm2 = 1 /\ batch_predictions = "none" /\ ac_pc = "idle"

IdleAF == lanes = <<>> /\ output = <<>> /\ af_i = 0 /\ af_pc = "idle"

IdleBM ==
    /\ bm = "none" /\ built = <<>> /\ bm_args = "none"
    /\ bm_x = "none" /\ bm_result = "none"
    /\ bm_calls = 0 /\ bm_pc = "idle"

IdleRNN ==
    /\ rnn = "none" /\ x = "none" /\ hidden = "none"
    /\ outputs = <<>> /\ t = 0 /\ rnn_pc = "idle"

(***************************************************************************)
(* AgentCenter (agent_centered_transformations copy.py)                    *)
(***************************************************************************)

\* np.matmul of a 3x3 matrix with a column vector (the [..., np.newaxis] column)
MatVec(m, v) ==
    [i \in 1..3 |-> m[i][1] * v[1] + m[i][2] * v[2] + m[i][3] * v[3]]

\* homogenize_matrix: append a 1 to the last axis
homogenize_matrix(v) == Append(v, 1)

\* [:2] on the last axis
Dehomogenize(v) == <<v[1], v[2]>>

\* The direction whose angle np.arctan2 returns for (dy, dx) = last - first;
\* arctan2(0, 0) is 0, the angle of the direction (1, 0).
Heading(positions) ==
    LET d == VecSub(Last(positions), positions[1])
    IN  IF d = <<0, 0>> THEN <<1, 0>> ELSE d

\* r^2 for the rotation built from positions: cos and sin are e / r
RotationNorm2(positions) ==
    LET e == Heading(positions) IN e[1] * e[1] + e[2] * e[2]

\* get_rotation_matrix: theta = -arctan2(dy, dx) + pi/2, so
\* cos(theta) = dy / r and sin(theta) = dx / r.  Rows 1 and 2 are numerators
\* over r; row 3 is exact and is dropped when the data is dehomogenized.
get_rotation_matrix(positions) ==
    LET e == Heading(positions)
        c == e[2]
        s == e[1]
    IN  << <<c, -s, 0>>, <<s, c, 0>>, <<0, 0, 1>> >>

\* np.where(agent_ids == target_id)[0][0]: the first index holding target_id
AgentIndex(d) ==
    CHOOSE i \in DOMAIN d.track_id :
        /\ d.track_id[i] = d.agent_id
        /\ \A j \in 1..(i - 1) : d.track_id[j] # d.agent_id

\* np.concatenate([p_in, p_out], axis=1)
ConcatTime(a, b) == [i \in DOMAIN a |-> a[i] \o b[i]]

\* A variant that centres every timestep on the target's first position.
TranslationTransformsFirst(target_positions) ==
    [k \in DOMAIN target_positions |->
        << <<1, 0, 0 - target_positions[1][1]>>,
           <<0, 1, 0 - target_positions[1][2]>>,
           <<0, 0, 1>> >>]

\* np.eye(3)[np.newaxis].repeat(num_timesteps); [:, :2, 2] -= target_positions
TranslationTransforms(target_positions) ==
    [k \in DOMAIN target_positions |->
        << <<1, 0, 0 - target_positions[k][1]>>,
           <<0, 1, 0 - target_positions[k][2]>>,
           <<0, 0, 1>> >>]

\* np.vstack([[0, 0, 0], np.diff(positions_h[agent_index], axis=0)])
OffsetsH(target_h) ==
    [k \in DOMAIN target_h |->
        IF k = 1 THEN <<0, 0, 0>> ELSE VecSub(target_h[k], target_h[k - 1])]

\* np.cumsum along the time axis of one agent's row
RECURSIVE CumSum(_)
CumSum(row) ==
    IF Len(row) <= 1 THEN row
    ELSE LET head == CumSum(SubSeq(row, 1, Len(row) - 1))
         IN  Append(head, VecAdd(Last(head), Last(row)))

\* The body of AgentCenter.apply: the datum it returns.
ApplyDatum(d) ==
    LET agent_index  == AgentIndex(d)
        input_length == Len(d.p_in[1])
        positions    == ConcatTime(d.p_in, d.p_out)
        velocities   == ConcatTime(d.v_in, d.v_out)
        num_timesteps == Len(positions[1])
        positions_h  == [a \in DOMAIN positions |->
                            [k \in 1..num_timesteps |-> homogenize_matrix(positions[a][k])]]
        velocities_h == [a \in DOMAIN velocities |->
                            [k \in 1..num_timesteps |-> homogenize_matrix(velocities[a][k])]]
        lanes_h      == [l \in DOMAIN d.lane |-> homogenize_matrix(d.lane[l])]
        lane_norms_h == [l \in DOMAIN d.lane_norm |-> homogenize_matrix(d.lane_norm[l])]
        target_positions == positions[agent_index]
        translation  == TranslationTransforms(target_positions)
        offsets_h    == OffsetsH(positions_h[agent_index])
        translated_h == [a \in DOMAIN positions_h |->
                            [k \in 1..num_timesteps |->
                                MatVec(translation[k], positions_h[a][k])]]
        rot          == get_rotation_matrix(positions[agent_index])
        positions_r  == [a \in DOMAIN translated_h |->
                            [k \in 1..num_timesteps |->
                                Dehomogenize(MatVec(rot, translated_h[a][k]))]]
        velocities_r == [a \in DOMAIN velocities_h |->
                            [k \in 1..num_timesteps |->
                                Dehomogenize(MatVec(rot, velocities_h[a][k]))]]
        lanes_r      == [l \in DOMAIN lanes_h |-> Dehomogenize(MatVec(rot, lanes_h[l]))]
        lane_norms_r == [l \in DOMAIN lane_norms_h |->
                            Dehomogenize(MatVec(rot, lane_norms_h[l]))]
        offsets      == [k \in 1..num_timesteps |->
                            Dehomogenize(MatVec(rot, offsets_h[k]))]
        positions_f  == [positions_r EXCEPT ![agent_index] = offsets]
        p_out        == [a \in DOMAIN positions_f |->
                            CumSum(SubSeq(positions_f[a], input_length + 1, num_timesteps))]
    IN  [d EXCEPT
            !.p_in  = [a \in DOMAIN positions_f |->
                          SubSeq(positions_f[a], 1, input_length)],
            !.v_in  = [a \in DOMAIN velocities_r |->
                          SubSeq(velocities_r[a], 1, input_length)],
            !.p_out = p_out,
            !.v_out = [a \in DOMAIN velocities_r |->
                          SubSeq(velocities_r[a], input_length + 1, num_timesteps)],
            !.lane = lanes_r,
            !.lane_norm = lane_norms_r,
            !.prediction_correction = "AgentCenter.inverse"]

\* AgentCenter.inverse: torch.cumsum(batch_predictions, axis=1); the metadata
\* argument is not read.
inverse(predictions, batch_metadata) ==
    [b \in DOMAIN predictions |-> CumSum(predictions[b])]

\* ---- the data AgentCenter is run on ----
Grid == (0..MaxCoord) \X (0..MaxCoord)

Moves == { <<1, 0>>, <<0, 1>>, <<-1, -1>> }

\* the neighbour drifts by the same step at every timestep
NeighbourMove == <<1, -1>>

\* a trajectory of n positions from a start and one move per later timestep
RECURSIVE Path(_, _, _)
Path(start, moves, n) ==
    IF n <= 1 THEN <<start>>
    ELSE LET head == Path(start, moves, n - 1)
         IN  Append(head, VecAdd(Last(head), moves[n - 1]))

LaneChoices ==
    { [lane |-> << <<0, 2>>, <<3, 1>> >>, lane_norm |-> << <<1, 1>>, <<-1, 0>> >>] }

\* velocities are measurements of their own: distinct per agent and timestep
Velocity(a, k) == <<k - 2, a + 1>>

MakeDatum(ids, target_id, tpath, npath, nin, ln) ==
    LET n   == Len(tpath)
        ai  == IF ids[1] = target_id THEN 1 ELSE 2
        pos == [a \in 1..2 |-> IF a = ai THEN tpath ELSE npath]
        vel == [a \in 1..2 |-> [k \in 1..n |-> Velocity(a, k)]]
    IN  [track_id |-> ids, agent_id |-> target_id,
         p_in  |-> [a \in 1..2 |-> SubSeq(pos[a], 1, nin)],
         p_out |-> [a \in 1..2 |-> SubSeq(pos[a], nin + 1, n)],
         v_in  |-> [a \in 1..2 |-> SubSeq(vel[a], 1, nin)],
         v_out |-> [a \in 1..2 |-> SubSeq(vel[a], nin + 1, n)],
         lane |-> ln.lane, lane_norm |-> ln.lane_norm,
         prediction_correction |-> "none"]

InitAC ==
    /\ \E nin \in 1..MaxIn, nout \in 1..MaxOut, target_id \in {7, 9},
          ln \in LaneChoices, tstart \in Grid, nstart \in Grid :
         \E tmoves \in [1..(nin + nout - 1) -> Moves] :
            datum = MakeDatum(<<7, 9>>, target_id,
                              Path(tstart, tmoves, nin + nout),
                              Path(nstart, [k \in 1..(nin + nout - 1) |-> NeighbourMove],
                                   nin + nout),
                              nin, ln)
    /\ original = datum
    /\ rotation_transforms = "none"
    /\ norm2 = 1
    /\ batch_predictions = "none"
    /\ ac_pc = "raw"

\* datum = AgentCenter.apply(datum)
Apply ==
    /\ ac_pc = "raw"
    /\ datum' = ApplyDatum(datum)
    /\ rotation_transforms' =
           get_rotation_matrix(ConcatTime(datum.p_in, datum.p_out)[AgentIndex(datum)])
    /\ norm2' = RotationNorm2(ConcatTime(datum.p_in, datum.p_out)[AgentIndex(datum)])
    /\ ac_pc' = "applied"
    /\ UNCHANGED <<original, batch_predictions>>
    /\ UNCHANGED <<afVars, bmVars, rnnVars>>

\* datum["prediction_correction"](batch, metadata) on the target agent's
\* transformed output trajectory, as a batch of one
Inverse ==
    /\ ac_pc = "applied"
    /\ datum.prediction_correction = "AgentCenter.inverse"
    /\ batch_predictions' = inverse(<<datum.p_out[AgentIndex(datum)]>>, datum)
    /\ ac_pc' = "inverted"
    /\ UNCHANGED <<datum, original, rotation_transforms, norm2>>
    /\ UNCHANGED <<afVars, bmVars, rnnVars>>

NextAC == Apply \/ Inverse

\* the other components stay idle
InitAllAC == InitAC /\ IdleAF /\ IdleBM /\ IdleRNN

SpecAC == InitAllAC /\ [][NextAC]_vars

(***************************************************************************)
(* Properties of AgentCenter                                               *)
(***************************************************************************)
ACDone == ac_pc \in {"applied", "inverted"}

TargetIndex == AgentIndex(original)

OrigPositions == ConcatTime(original.p_in, original.p_out)

OrigVelocities == ConcatTime(original.v_in, original.v_out)

\* the 2x2 rotation of rotation_transforms acting on a plain 2-vector
Rotated(v) ==
    << rotation_transforms[1][1] * v[1] + rotation_transforms[1][2] * v[2],
       rotation_transforms[2][1] * v[1] + rotation_transforms[2][2] * v[2] >>

\* the sum of f[lo], ..., f[hi] of 2-vectors
RECURSIVE VecSum(_, _, _)
VecSum(f, lo, hi) ==
    IF hi < lo THEN <<0, 0>> ELSE VecAdd(VecSum(f, lo, hi - 1), f[hi])

\* C1: applying datum["prediction_correction"] (AgentCenter.inverse) to the
\* target agent's transformed output trajectory gives back the agent's
\* original, untransformed p_out positions.
CE_C1 ==
    ac_pc = "inverted" =>
        /\ Len(batch_predictions[1]) = Len(original.p_out[TargetIndex])
        /\ \A k \in DOMAIN original.p_out[TargetIndex] : \A i \in 1..2 :
               EqReal(batch_predictions[1][k][i], norm2,
                      original.p_out[TargetIndex][k][i])

\* C2 as stated: every output (p_in/p_out, v_in/v_out, lane, lane_norm) is the
\* input translated by the target agent's position and then rotated.
CE_C2 ==
    ACDone =>
        LET L   == Len(original.p_in[1])
            tgt == OrigPositions[TargetIndex]
        IN  /\ \A a \in DOMAIN original.p_in : \A k \in 1..L :
                   /\ datum.p_in[a][k] = Rotated(VecSub(original.p_in[a][k], tgt[k]))
                   /\ datum.v_in[a][k] = Rotated(VecSub(original.v_in[a][k], tgt[k]))
            /\ \A a \in DOMAIN original.p_out : \A k \in DOMAIN original.p_out[a] :
                   /\ datum.p_out[a][k] =
                          Rotated(VecSub(original.p_out[a][k], tgt[L + k]))
                   /\ datum.v_out[a][k] =
                          Rotated(VecSub(original.v_out[a][k], tgt[L + k]))
            /\ \A l \in DOMAIN original.lane :
                   /\ datum.lane[l] = Rotated(VecSub(original.lane[l], tgt[1]))
                   /\ datum.lane_norm[l] =
                          Rotated(VecSub(original.lane_norm[l], tgt[1]))

\* C2 amended: the single rotation is applied to positions, velocities, lane
\* and lane_norm, and the translation by the target agent's position (at the
\* same timestep) to positions only.  Velocities, lane and lane_norm are the
\* inputs rotated; a non-target agent's p_in is its position relative to the
\* target, rotated; the target's own p_in is its rotated step from the previous
\* timestep (zero at the first); p_out is the running sum over the output
\* timesteps of these values, which for the target is the rotated displacement
\* from its last input position.
Thm_C2 ==
    ACDone =>
        LET L   == Len(original.p_in[1])
            N   == Len(OrigPositions[1])
            ti  == TargetIndex
            tgt == OrigPositions[ti]
            rel == [a \in DOMAIN OrigPositions |->
                       [k \in 1..N |-> Rotated(VecSub(OrigPositions[a][k], tgt[k]))]]
        IN  /\ rotation_transforms[1][1] = rotation_transforms[2][2]
            /\ rotation_transforms[1][2] = 0 - rotation_transforms[2][1]
            /\ norm2 = rotation_transforms[1][1] * rotation_transforms[1][1]
                       + rotation_transforms[2][1] * rotation_transforms[2][1]
            /\ norm2 > 0
            /\ DOMAIN datum.p_in = DOMAIN original.p_in
            /\ \A a \in DOMAIN original.p_in :
                   /\ Len(datum.p_in[a]) = L /\ Len(datum.v_in[a]) = L
                   /\ Len(datum.p_out[a]) = N - L /\ Len(datum.v_out[a]) = N - L
                   /\ \A k \in 1..N :
                          (IF k <= L THEN datum.v_in[a][k] ELSE datum.v_out[a][k - L])
                              = Rotated(OrigVelocities[a][k])
                   /\ \A k \in 1..L :
                          datum.p_in[a][k] =
                              IF a # ti THEN rel[a][k]
                              ELSE IF k = 1 THEN <<0, 0>>
                              ELSE Rotated(VecSub(tgt[k], tgt[k - 1]))
                   /\ \A k \in 1..(N - L) :
                          datum.p_out[a][k] =
                              IF a # ti THEN VecSum(rel[a], L + 1, L + k)
                              ELSE Rotated(VecSub(tgt[L + k], tgt[L]))
            /\ Len(datum.lane) = Len(original.lane)
            /\ Len(datum.lane_norm) = Len(original.lane_norm)
            /\ \A l \in DOMAIN original.lane :
                   datum.lane[l] = Rotated(original.lane[l])
            /\ \A l \in DOMAIN original.lane_norm :
                   datum.lane_norm[l] = Rotated(original.lane_norm[l])

\* apply has run on a datum whose target agent is away from the origin and
\* moving, so that translation and rotation both change the data
Wit_C2 ==
    /\ ac_pc = "applied"
    /\ rotation_transforms[2][1] # 0
    /\ rotation_transforms[1][1] # 0
    /\ Len(original.p_in[TargetIndex]) = 2
    /\ original.p_in[TargetIndex][1] # <<0, 0>>
    /\ original.p_in[TargetIndex][2] # original.p_in[TargetIndex][1]
    /\ TargetIndex = 2
    /\ Len(original.p_out[1]) = 2
    /\ Len(original.lane) = 2

\* C3: the rotation is the one from the target agent's first input position to
\* its final input position (first and last timestep of p_in): it maps that
\* direction onto the positive y axis.
CE_C3 ==
    ACDone =>
        LET e == Heading(original.p_in[TargetIndex])
        IN  /\ Rotated(e)[1] = 0
            /\ Rotated(e)[2] > 0

(***************************************************************************)
(* angle_filter (models/lanes/angle_filter.py)                             *)
(***************************************************************************)

\* The sign of torch.atan2(dy, dx), whose range is (-pi, pi]: positive for
\* dy > 0 and for the angle pi of dy = 0, dx < 0; zero for dy = 0, dx >= 0.
Atan2Sign(dy, dx) ==
    IF dy > 0 THEN 1
    ELSE IF dy < 0 THEN -1
    ELSE IF dx < 0 THEN 1 ELSE 0

\* the mask lane_angles > 0 on one row: lane_norms = row[2:], angle of
\* (lane_norms[1], lane_norms[0])
AngleMask(row) == Atan2Sign(row[4], row[3]) > 0

\* batch_lanes[lane_angles > 0]
FilterBatch(batch_lanes) == SelectSeq(batch_lanes, AngleMask)

LaneDirs == (-MaxDir..MaxDir) \X (-MaxDir..MaxDir)

\* all sequences over S of length 0..n
RECURSIVE SeqsUpTo(_, _)
SeqsUpTo(S, n) ==
    IF n = 0 THEN {<<>>}
    ELSE LET shorter == SeqsUpTo(S, n - 1)
         IN  shorter \cup {Append(q, e) : q \in shorter, e \in S}

\* lane tensors: row l of a tensor sits at x = l, so rows are told apart
LaneTensors ==
    {[l \in DOMAIN dirs |-> <<l, 0, dirs[l][1], dirs[l][2]>>] :
        dirs \in SeqsUpTo(LaneDirs, MaxLanes)}

InitAF ==
    /\ lanes \in (SeqsUpTo(LaneTensors, MaxBatch) \ {<<>>})
    /\ output = <<>>
    /\ af_i = 0
    /\ af_pc = "loop"

\* one iteration of "for batch_lanes in lanes"
AFIterate ==
    /\ af_pc = "loop"
    /\ af_i < Len(lanes)
    /\ output' = Append(output, FilterBatch(lanes[af_i + 1]))
    /\ af_i' = af_i + 1
    /\ UNCHANGED <<lanes, af_pc>>
    /\ UNCHANGED <<acVars, bmVars, rnnVars>>

\* return output
AFReturn ==
    /\ af_pc = "loop"
    /\ af_i = Len(lanes)
    /\ af_pc' = "returned"
    /\ UNCHANGED <<lanes, output, af_i>>
    /\ UNCHANGED <<acVars, bmVars, rnnVars>>

NextAF == AFIterate \/ AFReturn

\* the other components stay idle
InitAllAF == IdleAC /\ InitAF /\ IdleBM /\ IdleRNN

SpecAF == InitAllAF /\ [][NextAF]_vars

\* a lane goes down when its direction is more than 90 degrees away from up
\* (0, 1): its scalar product with up is negative
GoesDown(row) == row[3] * 0 + row[4] * 1 < 0

NotGoesDown(row) == ~GoesDown(row)

\* C4: angle_filter returns one tensor per batch element, in batch order, from
\* which exactly the lanes going down (more than 90 degrees from up) are
\* removed; all others, the perpendicular ones included, stay in order.
CE_C4 ==
    af_pc = "returned" =>
        /\ Len(output) = Len(lanes)
        /\ \A b \in DOMAIN lanes : output[b] = SelectSeq(lanes[b], NotGoesDown)

(***************************************************************************)
(* BaseModel (models/base.py)                                              *)
(***************************************************************************)
ModelNames == {"SimpleMLP", "SimpleRNN", "Seq2Seq"}

\* a wrapped model of class cls built by cls(model_config, data_config)
NewModel(cls, model_config, data_config) ==
    [class |-> cls, model_config |-> model_config, data_config |-> data_config]

\* A variant whose Seq2Seq branch builds a SimpleRNN.
DispatchSwapped(model_type, model_config, data_config) ==
    IF model_type = "SimpleMLP"
        THEN <<NewModel("SimpleMLP", model_config, data_config)>>
    ELSE IF model_type = "SimpleRNN"
        THEN <<NewModel("SimpleRNN", model_config, data_config)>>
    ELSE IF model_type = "Seq2Seq"
        THEN <<NewModel("SimpleRNN", model_config, data_config)>>
    ELSE <<>>

\* the if / elif chain of __init__: the models it constructs (none when no
\* branch matches, and self.model is then never assigned)
Dispatch(model_type, model_config, data_config) ==
    IF model_type = "SimpleMLP"
        THEN <<NewModel("SimpleMLP", model_config, data_config)>>
    ELSE IF model_type = "SimpleRNN"
        THEN <<NewModel("SimpleRNN", model_config, data_config)>>
    ELSE IF model_type = "Seq2Seq"
        THEN <<NewModel("Seq2Seq", model_config, data_config)>>
    ELSE <<>>

\* the state of a BaseModel whose __init__ never assigned self.model
NoModel == [class |-> "unset"]

\* self.model(x): the value the wrapped model m returns for y
ModelCall(m, y) == [kind |-> "returned", by |-> m, on |-> y]

ModelConfigs ==
    [name : ModelNames \cup {"SimpleGNN"}, device : {"cpu", "cuda"}]

DataConfigs == {[coord_dims |-> 2], [coord_dims |-> 3]}

InitBM ==
    /\ bm = "none" /\ built = <<>> /\ bm_args = "none"
    /\ bm_x = "none" /\ bm_result = "none"
    /\ bm_calls = 0 /\ bm_pc = "new"

\* BaseModel(model_config, data_config)
BMConstruct ==
    /\ bm_pc = "new"
    /\ \E model_config \in ModelConfigs, data_config \in DataConfigs :
         LET made == Dispatch(model_config.name, model_config, data_config)
         IN  /\ bm_args' = <<model_config, data_config>>
             /\ built' = built \o made
             /\ bm' = [device |-> model_config.device,
                       model_config |-> model_config,
                       data_config |-> data_config,
                       model |-> IF Len(made) = 0 THEN NoModel ELSE made[1]]
    /\ bm_pc' = "constructed"
    /\ UNCHANGED <<bm_x, bm_result, bm_calls>>
    /\ UNCHANGED <<acVars, afVars, rnnVars>>

\* BaseModel.forward(x): return self.model(x); AttributeError when no branch
\* of __init__ assigned self.model
BMForward ==
    /\ bm_pc \in {"constructed", "called"}
    /\ bm_calls < MaxCalls
    /\ \E y \in 1..MaxX :
         /\ bm_x' = y
         /\ bm_result' = IF bm.model.class = "unset"
                            THEN [kind |-> "raised", error |-> "AttributeError"]
                            ELSE ModelCall(bm.model, y)
    /\ bm_calls' = bm_calls + 1
    /\ bm_pc' = "called"
    /\ UNCHANGED <<bm, built, bm_args>>
    /\ UNCHANGED <<acVars, afVars, rnnVars>>

NextBM == BMConstruct \/ BMForward

\* the other components stay idle
InitAllBM == IdleAC /\ IdleAF /\ InitBM /\ IdleRNN

SpecBM == InitAllBM /\ [][NextBM]_vars

\* C5: for each of the names SimpleMLP, SimpleRNN and Seq2Seq the constructor
\* builds exactly one wrapped model, of the class with that name, from the
\* constructor's model_config and data_config, and forward(x) returns what
\* that wrapped model returns for x.
Thm_C5 ==
    (bm_pc \in {"constructed", "called"} /\ bm_args[1].name \in ModelNames) =>
        /\ Len(built) = 1
        /\ built[1].class = bm_args[1].name
        /\ built[1].model_config = bm_args[1]
        /\ built[1].data_config = bm_args[2]
        /\ bm.model = built[1]
        /\ bm_pc = "called" =>
               /\ bm_result.kind = "returned"
               /\ bm_result.by = built[1]
               /\ bm_result.on = bm_x

\* a Seq2Seq BaseModel has been called a second time
Wit_C5 ==
    /\ bm_pc = "called"
    /\ bm_args[1].name = "Seq2Seq"
    /\ bm_calls = 2
    /\ bm_result.kind = "returned"

(***************************************************************************)
(* SimpleRNN (models/b_simple_rnn.py)                                      *)
(*                                                                         *)
(* A tensor b x timesteps x features is modelled by its timestep axis, a   *)
(* sequence of tags saying where each timestep came from, and the size of  *)
(* its feature axis; the batch axis is carried along unchanged.            *)
(***************************************************************************)

\* the feature count of the raw input assembled for data_config["features"]
RawFeatures(data_config) ==
    (data_config.features.p_in + 1) * data_config.coord_dims
    + data_config.features.v_in * data_config.coord_dims
    + data_config.features.lane * 4

\* SimpleRNN.__init__: the attributes forward reads
NewSimpleRNN(data_config) ==
    LET pe == data_config.features.positional_embeddings
    IN  [input_timesteps  |-> data_config.input_timesteps,
         output_timesteps |-> data_config.output_timesteps,
         positional_embeddings |-> pe,
         output_size |-> data_config.coord_dims,
         input_size  |-> RawFeatures(data_config) * (IF pe # 0 THEN pe * 2 ELSE 1)]

\* get_positional_embeddings: a sin and a cos block per embedding level are
\* concatenated on the feature axis, starting from zero features
EmbeddedWidth(width, pe) == width * 2 * pe

RNNDataConfigs ==
    [coord_dims : {2},
     input_timesteps : 1..MaxInT,
     output_timesteps : 0..MaxOutT,
     features : [p_in : {0, 1}, v_in : {0, 1}, lane : {0, 1},
                 positional_embeddings : 0..MaxEmb]]

\* the object is constructed and forward is entered with a batch whose
\* elements have input_timesteps steps of the configured raw features
InitRNN ==
    /\ \E data_config \in RNNDataConfigs :
         /\ rnn = NewSimpleRNN(data_config)
         /\ x = [steps |-> [k \in 1..data_config.input_timesteps |-> <<"input", k>>],
                 width |-> RawFeatures(data_config)]
    /\ hidden = "unset"
    /\ outputs = <<>>
    /\ t = 0
    /\ rnn_pc = "embed"

\* x = torch.stack(x); x = self.get_positional_embeddings(x); hidden = None;
\* outputs = []
RNNEmbed ==
    /\ rnn_pc = "embed"
    /\ x' = [x EXCEPT !.width = EmbeddedWidth(x.width, rnn.positional_embeddings)]
    /\ hidden' = "None"
    /\ outputs' = <<>>
    /\ t' = 0
    /\ rnn_pc' = "loop"
    /\ UNCHANGED rnn
    /\ UNCHANGED <<acVars, afVars, bmVars>>

\* the GRU accepts x when its feature axis has input_size entries
GruAccepts == x.width = rnn.input_size

\* torch.cat((x, x_t), dim=1) needs equal feature axes
CatAccepts == EmbeddedWidth(rnn.output_size, rnn.positional_embeddings) = x.width

\* torch.cat((x, x_t), dim=1); the line x = x[:, 1:, :] is commented out
NextSteps(steps, step) == Append(steps, step)

\* one iteration of "for t in range(self.output_timesteps)"
RNNIterate ==
    /\ rnn_pc = "loop"
    /\ t < rnn.output_timesteps
    /\ GruAccepts /\ CatAccepts
    /\ outputs' = Append(outputs, [t |-> t, fed |-> Len(x.steps)])
    /\ hidden' = <<"hidden", t>>
    /\ x' = [x EXCEPT !.steps = NextSteps(x.steps, <<"prediction", t>>)]
    /\ t' = t + 1
    /\ UNCHANGED <<rnn, rnn_pc>>
    /\ UNCHANGED <<acVars, afVars, bmVars>>

\* self.rnn(x, hidden) or torch.cat raises on a feature-size mismatch
RNNRaise ==
    /\ rnn_pc = "loop"
    /\ t < rnn.output_timesteps
    /\ ~(GruAccepts /\ CatAccepts)
    /\ outputs' = IF GruAccepts THEN Append(outputs, [t |-> t, fed |-> Len(x.steps)])
                  ELSE outputs
    /\ rnn_pc' = "raised"
    /\ UNCHANGED <<rnn, x, hidden, t>>
    /\ UNCHANGED <<acVars, afVars, bmVars>>

\* outputs = torch.stack(outputs, dim=1); return outputs.  torch.stack
\* raises on an empty list.
RNNReturn ==
    /\ rnn_pc = "loop"
    /\ t >= rnn.output_timesteps
    /\ rnn_pc' = IF Len(outputs) = 0 THEN "raised" ELSE "returned"
    /\ UNCHANGED <<rnn, x, hidden, outputs, t>>
    /\ UNCHANGED <<acVars, afVars, bmVars>>

NextRNN == RNNEmbed \/ RNNIterate \/ RNNRaise \/ RNNReturn

\* the other components stay idle
InitAllRNN == IdleAC /\ IdleAF /\ IdleBM /\ InitRNN

SpecRNN == InitAllRNN /\ [][NextRNN]_vars

\* C6: every iteration feeds the GRU a sequence of input_timesteps steps (the
\* prediction replaces the first element); the loop ends after exactly
\* output_timesteps iterations and returns exactly output_timesteps
\* predictions, in generation order.
CE_C6 ==
    /\ \A k \in DOMAIN outputs :
           /\ outputs[k].t = k - 1
           /\ outputs[k].fed = rnn.input_timesteps
    /\ rnn_pc = "returned" =>
           /\ t = rnn.output_timesteps
           /\ Len(outputs) = rnn.output_timesteps

====
